---- MODULE Spec2Model ----
(***************************************************************************)
(* Model of music_player.py: a Tkinter event loop running the handlers     *)
(* load_file, play_audio, stop_audio and update_volume, plus the daemon    *)
(* threads that play_audio starts on _play_in_thread.                      *)
(*                                                                         *)
(* The event loop is single-threaded: a handler runs from the idle loop    *)
(* to its return.  play_audio and stop_audio are cut at the statements     *)
(* that read or write is_playing, because a playback thread writes         *)
(* is_playing itself (line 106) and can do so between them.  load_file     *)
(* and update_volume touch nothing a playback thread writes and are one    *)
(* step each.                                                              *)
(***************************************************************************)
EXTENDS Integers, Sequences, FiniteSets, TLC

VARIABLES
    audio_segment,        \* global audio_segment (line 24)
    current_file_name,    \* global current_file_name (line 25)
    is_playing,           \* global is_playing (line 26)
    play_thread,          \* global play_thread (line 27): index into threads, 0 = None
    label_file_name,      \* text of label_file_name
    label_status,         \* text of label_status
    label_volume_value,   \* text of label_volume_value
    volume_slider,        \* value of the Scale widget
    threads,              \* every thread started on _play_in_thread, in start order
    after_queue,          \* callbacks posted with root.after and not yet run
    pc,                   \* position of the event loop
    dialog,               \* the last messagebox shown
    kills,                \* number of kill commands issued by stop_audio
    hist,                 \* the user's actions so far, in order
    stop_live             \* whether the last Stop click found the latest thread inside play(audio)

vars == <<audio_segment, current_file_name, is_playing, play_thread,
          label_file_name, label_status, label_volume_value, volume_slider,
          threads, after_queue, pc, dialog, kills, hist, stop_live>>

\* What load_file, play_audio and stop_audio may change besides pc and dialog.
playerState == <<audio_segment, current_file_name, is_playing, play_thread,
                 label_file_name, label_status, label_volume_value,
                 volume_slider, threads, after_queue, kills>>

-----------------------------------------------------------------------------
(* Bounds *)

\* Number of user actions (clicks, slider moves) in a run.
MaxOps == 4

(* Program constants *)
SliderFrom == -20
SliderTo == 10
SliderDefault == 0

\* Slider positions the user moves the slider to.
SliderStops == {SliderFrom, -10, SliderDefault, SliderTo}

\* Paths the file dialog returns, as the strings between and including the
\* separators.
Paths == { <<"/", "home", "/", "song.mp3">>, <<"C:", "\\", "music", "/", "b.wav">> }

-----------------------------------------------------------------------------
(* Values *)

None == [tag |-> "None"]
Str(s) == [tag |-> "str", val |-> s]

\* An AudioSegment: the file it was decoded from and the gain applied since.
AudioSegment_from_file(path) == [tag |-> "AudioSegment", track |-> path, db |-> 0]

\* AudioSegment.__add__ with a number: a new segment, the operand untouched.
ApplyGain(seg, db) == [seg EXCEPT !.db = @ + db]

\* s.split(sep)[-1]: what follows the last sep of s, all of s when it has none.
RECURSIVE SplitLast(_, _)
SplitLast(s, sep) ==
    IF \E i \in 1..Len(s) : s[i] = sep THEN SplitLast(Tail(s), sep) ELSE s

\* file_path.split("/")[-1].split("\\")[-1]
BaseName(path) == SplitLast(SplitLast(path, "/"), "\\")

\* f"File: {current_file_name}"
FileLabel(name) == <<"File: ", name>>

\* f"{db_value:+d} dB": the sign is always written.
VolumeLabel(value) ==
    [sign |-> IF value < 0 THEN "-" ELSE "+",
     digits |-> IF value < 0 THEN -value ELSE value,
     unit |-> " dB"]

StatusReady == "Status: Siap"
StatusPlaying == "Status: Sedang Memutar..."
StatusStopped == "Status: Dihentikan"
StatusFinished == "Status: Selesai"

\* Phases of a thread running _play_in_thread(audio).
\*   starting : inside play(audio), the external player not spawned yet
\*   rendering: inside play(audio), the external player running
\*   killed   : inside play(audio), the external player signalled, not reaped
\*   finally  : play(audio) has returned or raised; before line 106
\*   flagged  : line 106 done; before line 107
\*   done     : line 107 done, the thread has ended
InsidePlay == {"starting", "rendering", "killed"}

NewThread(audio) == [phase |-> "starting", audio |-> audio, targeted |-> FALSE]

ThreadIds == 1..Len(threads)

-----------------------------------------------------------------------------
Init ==
    /\ audio_segment = None
    /\ current_file_name = None
    /\ is_playing = FALSE
    /\ play_thread = 0
    /\ label_file_name = FileLabel(Str(<<"Belum ada file dipilih">>))
    /\ label_status = StatusReady
    /\ label_volume_value = VolumeLabel(SliderDefault)
    /\ volume_slider = SliderDefault
    /\ threads = <<>>
    /\ after_queue = 0
    /\ pc = "idle"
    /\ dialog = "none"
    /\ kills = 0
    /\ hist = <<>>
    /\ stop_live = FALSE

\* The user can act: the event loop is idle and the run is within its bound.
UserTurn == pc = "idle" /\ Len(hist) < MaxOps

Did(op) == hist' = Append(hist, op)

-----------------------------------------------------------------------------
(* load_file *)

\* The dialog is cancelled: file_path is empty, line 50 returns.
LoadCancel ==
    /\ UserTurn
    /\ Did("load_cancel")
    /\ UNCHANGED <<playerState, pc, dialog, stop_live>>

\* load_file with the file name label written before the decode is attempted.
LoadFailEarlyLabel ==
    /\ UserTurn
    /\ \E path \in Paths : label_file_name' = FileLabel(Str(BaseName(path)))
    /\ Did("load_fail")
    /\ dialog' = "error"
    /\ UNCHANGED <<audio_segment, current_file_name, is_playing, play_thread,
                   label_status, label_volume_value, volume_slider, threads,
                   after_queue, kills, pc, stop_live>>

\* AudioSegment.from_file raises: line 55 assigns nothing, line 64 reports.
LoadFail ==
    /\ UserTurn
    /\ \E path \in Paths : TRUE
    /\ Did("load_fail")
    /\ dialog' = "error"
    /\ UNCHANGED <<playerState, pc, stop_live>>

\* load_file that also resets the playback state.
LoadOkResetsPlayback ==
    /\ UserTurn
    /\ \E path \in Paths :
         /\ audio_segment' = AudioSegment_from_file(path)
         /\ current_file_name' = Str(BaseName(path))
         /\ label_file_name' = FileLabel(Str(BaseName(path)))
    /\ volume_slider' = SliderDefault
    /\ label_volume_value' = IF volume_slider = SliderDefault THEN label_volume_value
                             ELSE VolumeLabel(SliderDefault)
    /\ is_playing' = FALSE
    /\ label_status' = StatusReady
    /\ Did("load_ok")
    /\ UNCHANGED <<play_thread, threads, after_queue, pc, dialog, kills, stop_live>>

\* Lines 55-62.  volume_slider.set(0) makes the Scale run its command,
\* update_volume, when the value changes.
LoadOk ==
    /\ UserTurn
    /\ \E path \in Paths :
         /\ audio_segment' = AudioSegment_from_file(path)
         /\ current_file_name' = Str(BaseName(path))
         /\ label_file_name' = FileLabel(Str(BaseName(path)))
    /\ volume_slider' = SliderDefault
    /\ label_volume_value' = IF volume_slider = SliderDefault THEN label_volume_value
                             ELSE VolumeLabel(SliderDefault)
    /\ Did("load_ok")
    /\ UNCHANGED <<is_playing, play_thread, label_status, threads, after_queue,
                   pc, dialog, kills, stop_live>>

-----------------------------------------------------------------------------
(* update_volume: the user moves the slider *)

SlideTo(value) ==
    /\ UserTurn
    /\ value # volume_slider
    /\ volume_slider' = value
    /\ label_volume_value' = VolumeLabel(value)
    /\ Did("slide")
    /\ UNCHANGED <<audio_segment, current_file_name, is_playing, play_thread,
                   label_file_name, label_status, threads, after_queue,
                   pc, dialog, kills, stop_live>>

Slide == \E value \in SliderStops : SlideTo(value)

-----------------------------------------------------------------------------
(* play_audio *)

\* play_audio without the return after the warning.
PlayNoFileFallsThrough ==
    /\ UserTurn
    /\ audio_segment = None
    /\ dialog' = "warning"
    /\ is_playing' = TRUE
    /\ label_status' = StatusPlaying
    /\ Did("play")
    /\ UNCHANGED <<audio_segment, current_file_name, play_thread, label_file_name,
                   label_volume_value, volume_slider, threads, after_queue,
                   kills, pc, stop_live>>

\* Lines 76-78: nothing loaded.
PlayNoFile ==
    /\ UserTurn
    /\ audio_segment = None
    /\ dialog' = "warning"
    /\ Did("play")
    /\ UNCHANGED <<playerState, pc, stop_live>>

\* Lines 76-82: a file is loaded; line 81 reads is_playing.
PlayClick ==
    /\ UserTurn
    /\ audio_segment # None
    /\ pc' = IF is_playing THEN "play_stop_118" ELSE "play_85"
    /\ Did("play")
    /\ UNCHANGED <<playerState, dialog, stop_live>>

\* play_audio applying the gain to the loaded segment itself.
PlayStartInPlace ==
    /\ pc = "play_85"
    /\ audio_segment' = ApplyGain(audio_segment, volume_slider)
    /\ is_playing' = TRUE
    /\ label_status' = StatusPlaying
    /\ threads' = Append(threads, NewThread(ApplyGain(audio_segment, volume_slider)))
    /\ play_thread' = Len(threads) + 1
    /\ pc' = "idle"
    /\ UNCHANGED <<current_file_name, label_file_name, label_volume_value,
                   volume_slider, after_queue, dialog, kills, hist, stop_live>>

\* Lines 85-94.
PlayStart ==
    /\ pc = "play_85"
    /\ is_playing' = TRUE
    /\ label_status' = StatusPlaying
    /\ threads' = Append(threads, NewThread(ApplyGain(audio_segment, volume_slider)))
    /\ play_thread' = Len(threads) + 1
    /\ pc' = "idle"
    /\ UNCHANGED <<audio_segment, current_file_name, label_file_name,
                   label_volume_value, volume_slider, after_queue, dialog,
                   kills, hist, stop_live>>

-----------------------------------------------------------------------------
(* stop_audio *)

LatestInsidePlay == play_thread # 0 /\ threads[play_thread].phase \in InsidePlay

\* stop_audio without the is_playing guard.
StopNoopUnguarded ==
    /\ UserTurn
    /\ ~is_playing
    /\ pc' = "stop_121"
    /\ Did("stop")
    /\ stop_live' = LatestInsidePlay
    /\ UNCHANGED <<playerState, dialog>>

\* The Stop button, line 118 with is_playing false: return.
StopNoop ==
    /\ UserTurn
    /\ ~is_playing
    /\ Did("stop")
    /\ stop_live' = LatestInsidePlay
    /\ UNCHANGED <<playerState, pc, dialog>>

\* The Stop button, line 118 with is_playing true.
StopClick ==
    /\ UserTurn
    /\ is_playing
    /\ pc' = "stop_121"
    /\ Did("stop")
    /\ stop_live' = LatestInsidePlay
    /\ UNCHANGED <<playerState, dialog>>

\* stop_audio called from play_audio (line 82): line 118.
StopCheck ==
    /\ pc = "play_stop_118"
    /\ pc' = IF is_playing THEN "play_stop_121" ELSE "play_85"
    /\ UNCHANGED <<playerState, dialog, hist, stop_live>>

\* Lines 121-122.
StopSet ==
    /\ pc \in {"stop_121", "play_stop_121"}
    /\ is_playing' = FALSE
    /\ label_status' = StatusStopped
    /\ pc' = IF pc = "stop_121" THEN "stop_135" ELSE "play_stop_135"
    /\ UNCHANGED <<audio_segment, current_file_name, play_thread, label_file_name,
                   label_volume_value, volume_slider, threads, after_queue,
                   dialog, kills, hist, stop_live>>

\* What the kill command does to one thread: every running player process is
\* signalled; a thread whose player is not spawned yet is missed.
Signalled(th) ==
    [th EXCEPT !.phase = IF @ = "rendering" THEN "killed" ELSE @,
               !.targeted = @ \/ th.phase \in InsidePlay]

\* Lines 132-135: os.system("pkill -f ffplay") / taskkill.
StopKill ==
    /\ pc \in {"stop_135", "play_stop_135"}
    /\ threads' = [t \in ThreadIds |-> Signalled(threads[t])]
    /\ kills' = kills + 1
    /\ pc' = IF pc = "stop_135" THEN "idle" ELSE "play_85"
    /\ UNCHANGED <<audio_segment, current_file_name, is_playing, play_thread,
                   label_file_name, label_status, label_volume_value,
                   volume_slider, after_queue, dialog, hist, stop_live>>

-----------------------------------------------------------------------------
(* _play_in_thread *)

ThreadMoves(t, from, to) ==
    /\ t \in ThreadIds
    /\ threads[t].phase \in from
    /\ threads' = [threads EXCEPT ![t].phase = to]

threadFrame == <<audio_segment, current_file_name, play_thread, label_file_name,
                 label_status, label_volume_value, volume_slider, pc, dialog,
                 kills, hist, stop_live>>

\* play(audio) spawns the external player.
ThreadSpawn(t) ==
    /\ ThreadMoves(t, {"starting"}, "rendering")
    /\ UNCHANGED <<threadFrame, is_playing, after_queue>>

\* play(audio) returns: the player ran to the end, or was killed.
ThreadReturns(t) ==
    /\ ThreadMoves(t, {"rendering", "killed"}, "finally")
    /\ UNCHANGED <<threadFrame, is_playing, after_queue>>

\* play(audio) raises; line 102 swallows it.
ThreadRaises(t) ==
    /\ ThreadMoves(t, {"starting", "rendering"}, "finally")
    /\ UNCHANGED <<threadFrame, is_playing, after_queue>>

\* Line 106, run by the playback thread.
ThreadClearsFlag(t) ==
    /\ ThreadMoves(t, {"finally"}, "flagged")
    /\ is_playing' = FALSE
    /\ UNCHANGED <<threadFrame, after_queue>>

\* _play_in_thread ending without posting the status update.
ThreadEndsSilently(t) ==
    /\ ThreadMoves(t, {"flagged"}, "done")
    /\ UNCHANGED <<threadFrame, is_playing, after_queue>>

\* Line 107: root.after(0, ...) queues the callback for the event loop.
ThreadPosts(t) ==
    /\ ThreadMoves(t, {"flagged"}, "done")
    /\ after_queue' = after_queue + 1
    /\ UNCHANGED <<threadFrame, is_playing>>

ThreadStep ==
    \/ \E t \in ThreadIds : ThreadSpawn(t)
    \/ \E t \in ThreadIds : ThreadReturns(t)
    \/ \E t \in ThreadIds : ThreadRaises(t)
    \/ \E t \in ThreadIds : ThreadClearsFlag(t)
    \/ \E t \in ThreadIds : ThreadPosts(t)

\* The event loop runs a callback queued at line 107.
RunCallback ==
    /\ pc = "idle"
    /\ after_queue > 0
    /\ after_queue' = after_queue - 1
    /\ label_status' = StatusFinished
    /\ UNCHANGED <<audio_segment, current_file_name, is_playing, play_thread,
                   label_file_name, label_volume_value, volume_slider, threads,
                   pc, dialog, kills, hist, stop_live>>

-----------------------------------------------------------------------------
UserStep ==
    \/ LoadCancel
    \/ LoadFail
    \/ LoadOk
    \/ Slide
    \/ PlayNoFile
    \/ PlayClick
    \/ StopNoop
    \/ StopClick

LoopStep ==
    \/ PlayStart
    \/ StopCheck
    \/ StopSet
    \/ StopKill
    \/ RunCallback

Next == UserStep \/ LoopStep \/ ThreadStep

Spec == Init /\ [][Next]_vars

\* The event loop keeps running and every playback thread keeps running:
\* the external player returns, and a posted callback is run.
FairSpec == Spec /\ WF_vars(LoopStep) /\ \A t \in 1..MaxOps : WF_vars(
    ThreadSpawn(t) \/ ThreadReturns(t) \/ ThreadClearsFlag(t) \/ ThreadPosts(t))

-----------------------------------------------------------------------------
(* Properties *)

LastOp == IF hist = <<>> THEN "none" ELSE hist[Len(hist)]

Running == {t \in ThreadIds : threads[t].phase \in InsidePlay}

\* A playback thread takes a step of _play_in_thread.
ThreadActed ==
    /\ kills' = kills
    /\ \E t \in ThreadIds : threads'[t].phase # threads[t].phase

\* C1: after load, Play, and Stop pressed while the playback thread is inside
\* play(audio), with no further user action, the status label reads
\* "Status: Dihentikan" in every state after stop_audio has returned, and the
\* file name label still shows the loaded file.
C1_StoppedStays ==
    (hist = <<"load_ok", "play", "stop">> /\ stop_live /\ pc = "idle")
        => /\ label_status = StatusStopped
           /\ label_file_name = FileLabel(current_file_name)

\* C2: at most one playback thread is inside play(audio) at any time.
C2_OneRenderer == Cardinality(Running) <= 1

\* C3: a load whose decoding fails shows an error dialog and leaves
\* audio_segment, current_file_name, the file name label, the slider,
\* is_playing and the status label as they were.
C3_LoadFailKeepsState ==
    [][Did("load_fail") =>
         /\ dialog' = "error"
         /\ UNCHANGED <<audio_segment, current_file_name, label_file_name,
                        volume_slider, is_playing, label_status>>]_vars

C3_Witness ==
    /\ LastOp = "load_fail"
    /\ dialog = "error"
    /\ is_playing
    /\ label_status = StatusPlaying
    /\ audio_segment # None

\* The file name load_file is expected to display for each path.
ExpectedName(path) ==
    IF path = <<"/", "home", "/", "song.mp3">> THEN Str(<<"song.mp3">>)
    ELSE Str(<<"b.wav">>)

\* What a successful load stores: the decoded track at its own gain, its
\* file name, the slider back at 0.
Loaded ==
    /\ \E path \in Paths :
         /\ audio_segment' = [tag |-> "AudioSegment", track |-> path, db |-> 0]
         /\ current_file_name' = ExpectedName(path)
         /\ label_file_name' = <<"File: ", ExpectedName(path)>>
    /\ volume_slider' = 0

\* C4 as stated: a successful load replaces the track, resets the gain,
\* updates the file name, and leaves the controller not Playing.
C4_LoadMakesIdle ==
    [][Did("load_ok") =>
         /\ Loaded
         /\ ~is_playing'
         /\ label_status' # StatusPlaying]_vars

\* C4 amended: a successful load replaces the track, resets the gain and
\* updates the file name, and leaves the playback state as it was:
\* is_playing, the status label and the playback threads are unchanged.
C4_LoadKeepsPlayback ==
    [][Did("load_ok") =>
         /\ Loaded
         /\ UNCHANGED <<is_playing, label_status, threads, play_thread,
                        after_queue, kills>>]_vars

C4_Witness ==
    /\ LastOp = "load_ok"
    /\ is_playing
    /\ label_status = StatusPlaying
    /\ LatestInsidePlay
    /\ threads[play_thread].audio.track # audio_segment.track

\* C5: Play with nothing loaded shows a warning and changes nothing; while
\* nothing is loaded no thread has been started, no kill issued, and
\* is_playing is false.
C5_PlayWithoutFile ==
    /\ [](audio_segment = None => ~is_playing /\ threads = <<>> /\ kills = 0)
    /\ [][(Did("play") /\ audio_segment = None) =>
            /\ dialog' = "warning"
            /\ pc' = "idle"
            /\ UNCHANGED playerState]_vars

C5_Witness ==
    /\ Len(hist) = 4
    /\ hist[1] = "load_fail"
    /\ hist[2] = "stop"
    /\ hist[3] = "slide"
    /\ hist[4] = "play"
    /\ dialog = "warning"
    /\ audio_segment = None

\* C6: a stop_audio call made while is_playing is false issues no kill and
\* changes no state; the second of two Stop clicks in a row is such a call.
C6_StopIdempotent ==
    /\ [][(Did("stop") /\ ~is_playing) => UNCHANGED <<playerState, pc, dialog>>]_vars
    /\ [][(LastOp = "stop" /\ pc = "idle" /\ Did("stop")) =>
            UNCHANGED <<playerState, pc, dialog>>]_vars

C6_Witness ==
    /\ Len(hist) = 4
    /\ hist[3] = "stop"
    /\ hist[4] = "stop"
    /\ kills = 1
    /\ ~is_playing
    /\ label_status = StatusStopped

\* The user has loaded a file and pressed Play, and nothing else.
LoadedAndPlayed == hist = <<"load_ok", "play">>

\* C7: after load and Play with no Stop and no further user action, the
\* state goes from Idle to Playing and eventually reaches Finished.
C7_PlayFinishes ==
    /\ [](hist = <<"load_ok">> => ~is_playing /\ label_status = StatusReady)
    /\ [][(LoadedAndPlayed /\ pc = "play_85" /\ pc' = "idle") =>
            (is_playing' /\ label_status' = StatusPlaying)]_vars
    /\ LoadedAndPlayed ~>
         (\/ ~LoadedAndPlayed
          \/ (pc = "idle" /\ ~is_playing /\ label_status = StatusFinished))

C7_Witness ==
    /\ LoadedAndPlayed
    /\ pc = "idle"
    /\ ~is_playing
    /\ label_status = StatusFinished
    /\ threads[1].phase = "done"

\* C8: audio_segment is what the last successful load stored (only a load
\* changes it, and its gain is never touched); each play renders the loaded
\* track at exactly the slider value read at that invocation; the buffer a
\* running playback renders never changes.
C8_PlayKeepsBuffer ==
    /\ [](audio_segment # None => audio_segment.db = 0)
    /\ [][audio_segment' # audio_segment => Did("load_ok")]_vars
    /\ [][Len(threads') > Len(threads) =>
            /\ Len(threads') = Len(threads) + 1
            /\ threads'[Len(threads')].audio =
                 [tag |-> "AudioSegment", track |-> audio_segment.track,
                  db |-> volume_slider]]_vars
    /\ [][\A t \in ThreadIds : threads'[t].audio = threads[t].audio]_vars

C8_Witness ==
    /\ hist = <<"load_ok", "slide", "play", "play">>
    /\ Len(threads) = 2
    /\ volume_slider = -10
    /\ threads[1].audio.db = -10
    /\ threads[2].audio.db = -10
    /\ audio_segment.db = 0

\* C9: no step of a playback thread changes is_playing while an event-loop
\* handler is between two of its statements.
C9_ThreadWritesNothing ==
    [][(ThreadActed /\ pc # "idle") => is_playing' = is_playing]_vars

\* C10: whenever the event loop is idle and the most recently started
\* playback thread is inside play(audio) and no stop has targeted it,
\* is_playing is true, so a Stop click is not a no-op.
C10_LatestIsPlaying ==
    (pc = "idle" /\ LatestInsidePlay /\ ~threads[play_thread].targeted)
        => is_playing

====
